---- MODULE Spec2Model ----
(***************************************************************************)
(* Model of the resource scanner tool (src/src/tool/mod.rs): the pattern   *)
(* size validation, the pattern geometry, the sanitizer, the discovery     *)
(* step and the selection of the cell with the largest quantity.           *)
(*                                                                         *)
(* A MapCoordinate is a record [width, height]: width is the column and    *)
(* height the row (src/src/lib.rs).  The robot's known map is indexed      *)
(* [row][col].  A pattern size is a usize; it is kept as a pair <<hi, lo>> *)
(* standing for hi * 2^31 + lo, so that the `as i32` casts of the code     *)
(* keep their width.                                                       *)
(***************************************************************************)
EXTENDS Integers, Sequences, FiniteSets, TLC

\* ------------------------------------------------------------------ bounds
WorldSize == 3
MaxSize == 5
MaxEnergy == 30
MaxDiscoverable == 9
MaxCoordinate == 3

\* ------------------------------------------------------- program constants
EnergyPerTile == 3
I32Max == 2147483647

\* --------------------------------------------------------------- data types
Index == 0..(WorldSize - 1)

MapCoordinate_new(width, height) == [width |-> width, height |-> height]

\* a conversion that takes the pair as (row, column)
MapCoordinate_from_Swapped(value) == [width |-> value[2], height |-> value[1]]

\* impl From<(usize, usize)> for MapCoordinate
MapCoordinate_from(value) == [width |-> value[1], height |-> value[2]]

\* impl Into<(usize, usize)> for MapCoordinate
MapCoordinate_into(c) == <<c.width, c.height>>

\* impl PartialEq for MapCoordinate
MapCoordinate_eq(self, other) ==
    self.height = other.height /\ self.width = other.width

Cells == {MapCoordinate_new(x, y) : x \in Index, y \in Index}

PatternKinds ==
    {"Area", "DirectionUp", "DirectionRight", "DirectionLeft", "DirectionDown",
     "DiagonalUpperLeft", "DiagonalUpperRight", "DiagonalLowerLeft",
     "DiagonalLowerRight", "StraightStar", "DiagonalStar"}

\* usize values of a pattern size: the small ones, and two beyond i32:
\* 2^31 + 1, 2^32 + 1 and 2^32 + 3
USize(n) == <<0, n>>
Sizes == {USize(n) : n \in 0..MaxSize} \cup {<<1, 1>>, <<2, 1>>, <<2, 3>>}

Pattern == [kind : PatternKinds, size : Sizes]

\* `size as i32`: the low 32 bits of the usize, read as a signed integer
AsI32(size) ==
    IF size[1] % 2 = 0 THEN size[2] ELSE size[2] - I32Max - 1

\* the mathematical facts about a usize that the statements below need
USizeIsEven(size) == size[2] % 2 = 0
USizeLess(size, n) == size[1] = 0 /\ size[2] < n

\* Content: a kind (the enum discriminant) and, for the kinds that carry
\* one, a quantity.  Bin holds a range and None holds nothing.
ContentNone == [kind |-> "None", qty |-> 0]
Coin(q) == [kind |-> "Coin", qty |-> q]
Bin == [kind |-> "Bin", qty |-> 0]

\* Content::get_value().0 : Some(quantity) or None
HasValue(content) == content.kind = "Coin"

\* ---------------------------------------------------------- Pattern::check_size
\* false when the guard of the pattern's match arm holds, true otherwise
check_size(pattern) ==
    IF pattern.kind = "Area"
    THEN ~(USizeIsEven(pattern.size) \/ AsI32(pattern.size) < 3)
    ELSE ~(AsI32(pattern.size) < 1)

\* ------------------------------------------------- get_target_coordinates
\* the Rust ranges a..b and a..=b, as sequences
RangeExcl(a, b) == IF b <= a THEN <<>> ELSE [i \in 1..(b - a) |-> a + i - 1]
RangeIncl(a, b) == IF b < a THEN <<>> ELSE [i \in 1..(b - a + 1) |-> a + i - 1]

\* the negation of the out-of-bound test that guards every push
\* a clipping test that forgets the lower bounds
InBounds_UpperOnly(x_world, y_world, world_size) ==
    ~(x_world > world_size - 1 \/ y_world > world_size - 1)

InBounds(x_world, y_world, world_size) ==
    ~(x_world < 0
      \/ x_world > world_size - 1
      \/ y_world < 0
      \/ y_world > world_size - 1)

\* the pushes of one loop: the candidates <<x_world, y_world>> in loop order,
\* those out of bound omitted
PushInBounds(candidates, world_size) ==
    LET kept == SelectSeq(candidates,
                          LAMBDA p : InBounds(p[1], p[2], world_size))
    IN  [i \in 1..Len(kept) |-> MapCoordinate_new(kept[i][1], kept[i][2])]

\* [(1, 1), (1, -1), (-1, 1), (1, 1)]
DiagonalStarMultipliers == << <<1, 1>>, <<1, -1>>, <<-1, 1>>, <<1, 1>> >>

\* The vector `out` at the end of get_target_coordinates.  The function
\* returns None when `out` is empty and Some(out) otherwise; the empty
\* sequence stands for None.
get_target_coordinates(robot, world_size, pattern) ==
    LET y_robot == robot.row
        x_robot == robot.col
        length == AsI32(pattern.size)
        ray(xs, ys) ==
            \* one loop over i in 0..=length with offsets (xs * i, ys * i)
            LET is == RangeIncl(0, length)
            IN  PushInBounds([k \in 1..Len(is) |->
                                <<x_robot + xs * is[k], y_robot + ys * is[k]>>],
                             world_size)
    IN  CASE pattern.kind = "Area" ->
               LET x_area_robot == length \div 2
                   y_area_robot == length \div 2
                   n == IF length > 0 THEN length * length ELSE 0
               IN  PushInBounds(
                     [k \in 1..n |->
                        <<x_robot + ((k - 1) \div length) - x_area_robot,
                          y_robot + ((k - 1) % length) - y_area_robot>>],
                     world_size)
          [] pattern.kind = "DirectionLeft" ->
               LET xs == RangeIncl(0, -length)
               IN  PushInBounds([k \in 1..Len(xs) |->
                                   <<x_robot + xs[k], y_robot>>], world_size)
          [] pattern.kind = "DirectionRight" ->
               LET xs == RangeIncl(0, length)
               IN  PushInBounds([k \in 1..Len(xs) |->
                                   <<x_robot + xs[k], y_robot>>], world_size)
          [] pattern.kind = "DirectionUp" ->
               LET ys == RangeIncl(0, length)
               IN  PushInBounds([k \in 1..Len(ys) |->
                                   <<x_robot, y_robot + ys[k]>>], world_size)
          [] pattern.kind = "DirectionDown" ->
               LET ys == RangeIncl(0, -length)
               IN  PushInBounds([k \in 1..Len(ys) |->
                                   <<x_robot, y_robot + ys[k]>>], world_size)
          [] pattern.kind = "DiagonalUpperLeft" -> ray(-1, -1)
          [] pattern.kind = "DiagonalUpperRight" -> ray(1, -1)
          [] pattern.kind = "DiagonalLowerLeft" -> ray(-1, 1)
          [] pattern.kind = "DiagonalLowerRight" -> ray(1, 1)
          [] pattern.kind = "DiagonalStar" ->
               LET n == IF length > 0 THEN 4 * length ELSE 0
                   arms == [k \in 1..n |->
                              LET i == ((k - 1) \div 4) + 1
                                  multiplier ==
                                      DiagonalStarMultipliers[((k - 1) % 4) + 1]
                              IN  <<x_robot + multiplier[1] * i,
                                    y_robot + multiplier[2] * i>>]
               IN  <<MapCoordinate_new(x_robot, y_robot)>>
                     \o PushInBounds(arms, world_size)
          [] pattern.kind = "StraightStar" ->
               LET xs == RangeIncl(-length, length)
                   upper == RangeIncl(1, length)
                   lower == RangeExcl(-length, 0)
               IN  PushInBounds([k \in 1..Len(xs) |->
                                   <<x_robot + xs[k], y_robot>>], world_size)
                     \o PushInBounds([k \in 1..Len(upper) |->
                                   <<x_robot, y_robot + upper[k]>>], world_size)
                     \o PushInBounds([k \in 1..Len(lower) |->
                                   <<x_robot, y_robot + lower[k]>>], world_size)

\* ------------------------------------------------------ get_sanitized_tiles
\* robot_map(world).unwrap().len(): the number of rows of the known map
MapLen(known_coordinates) == Cardinality(DOMAIN known_coordinates)

\* known_coordinates[a][b].is_some()
IsKnown(known_coordinates, a, b) == known_coordinates[a][b]

\* the index pair the sanitizer looks a coordinate up with
KnownLookup(known_coordinates, coordinate) ==
    IsKnown(known_coordinates, coordinate.width, coordinate.height)

\* a removal that takes the indices from the front: each removal shifts the
\* coordinates behind it, and the later indices then name other coordinates
sanitize_Forwards(known_coordinates, v) ==
    LET tiles_to_remove ==
            {index \in 1..Len(v) : KnownLookup(known_coordinates, v[index])}
        Removed[index \in 0..Len(v)] ==
            IF index = 0 THEN v
            ELSE LET left == Removed[index - 1]
                 IN  IF index \in tiles_to_remove /\ index <= Len(left)
                     THEN SubSeq(left, 1, index - 1)
                            \o SubSeq(left, index + 1, Len(left))
                     ELSE left
    IN  Removed[Len(v)]

\* the indices pushed to tiles_to_remove, then removed from the end of the
\* vector backwards: the coordinates left keep their order
sanitize(known_coordinates, v) ==
    LET tiles_to_remove ==
            {index \in 1..Len(v) : KnownLookup(known_coordinates, v[index])}
        Remaining[index \in 0..Len(v)] ==
            IF index = 0 THEN <<>>
            ELSE IF index \in tiles_to_remove THEN Remaining[index - 1]
            ELSE Append(Remaining[index - 1], v[index])
    IN  Remaining[Len(v)]

\* the target coordinates of the pattern, without those the robot knows
get_sanitized_tiles(robot, known_coordinates, pattern) ==
    sanitize(known_coordinates,
             get_target_coordinates(robot, MapLen(known_coordinates), pattern))

\* an index outside the known map makes known_coordinates[..][..] panic
IndexPanics(known_coordinates, v) ==
    \E index \in 1..Len(v) :
        \/ v[index].width \notin DOMAIN known_coordinates
        \/ v[index].height \notin DOMAIN known_coordinates

\* ------------------------------------------------------------------- state
VARIABLES
    world,          \* the tiles' contents, world[row][col]
    known,          \* the robot's known map, known[row][col]
    robot,          \* the robot's coordinate [row, col]
    energy,         \* the robot's energy
    discoverable,   \* the number of tiles the map service may still disclose
    fault,          \* the failure of another kind the map service is in, if any
    last,           \* the last call of scan: its arguments, what it asked of
                    \* the map service, and what it returned
    converted       \* the last conversion of a pair to a MapCoordinate and
                    \* back, and its comparison with another coordinate

vars == <<world, known, robot, energy, discoverable, fault, last, converted>>

\* LibError: the failures of the map service other than NotEnoughEnergy and
\* NoMoreDiscovery, by their Debug names; NoFault when it is in none
NoFault == ""
OtherLibErrors == {"OutOfBounds", "OperationNotAllowed"}
\* a map service that breaks its contract: it answers a request with entries
\* that hold no tile
Unresolved == "Unresolved"

\* ----------------------------------------------------------- return values
NoCoordinate == MapCoordinate_new(-1, -1)

Ok_None ==
    [tag |-> "Ok", error |-> "", found |-> FALSE,
     coordinate |-> NoCoordinate, quantity |-> 0]
Ok_Some(coordinate, quantity) ==
    [tag |-> "Ok", error |-> "", found |-> TRUE,
     coordinate |-> coordinate, quantity |-> quantity]
Err(error) ==
    [tag |-> "Err", error |-> error, found |-> FALSE,
     coordinate |-> NoCoordinate, quantity |-> 0]
\* an unwrap of None, or an index out of range
Panic ==
    [tag |-> "Panic", error |-> "", found |-> FALSE,
     coordinate |-> NoCoordinate, quantity |-> 0]

\* ------------------------------------------------------------ map service
\* robot_map(world): the known map
robot_map(known_map) == known_map

NoTile == [some |-> FALSE, content |-> ContentNone]
SomeTile(content) == [some |-> TRUE, content |-> content]

InWorld(tiles, col, row) == row \in DOMAIN tiles /\ col \in DOMAIN tiles[row]

\* robot_view(robot, world): the 3x3 window around the robot, [row][col],
\* None outside the world
robot_view(robot_coordinate, tiles) ==
    [y_area \in 0..2 |-> [x_area \in 0..2 |->
        IF InWorld(tiles, robot_coordinate.col + x_area - 1,
                          robot_coordinate.row + y_area - 1)
        THEN SomeTile(tiles[robot_coordinate.row + y_area - 1]
                           [robot_coordinate.col + x_area - 1])
        ELSE NoTile]]

\* the known map with the cells (col, row) of `cells` marked known
MarkKnown(known_map, cells) ==
    [row \in DOMAIN known_map |-> [col \in DOMAIN known_map[row] |->
        known_map[row][col] \/ <<col, row>> \in cells]]

\* the cells of the window that robot_view has shown
ViewedCells(robot_coordinate, tiles) ==
    {cell \in {<<robot_coordinate.col + x_area - 1,
                 robot_coordinate.row + y_area - 1>> :
                    x_area \in 0..2, y_area \in 0..2} :
        InWorld(tiles, cell[1], cell[2])}

\* discover_tiles(robot, world, to_discover): the coordinates are (col, row)
\* pairs.  Three units of energy are charged for each tile not known before;
\* the request fails as a whole, disclosing nothing, when the energy or the
\* number of tiles still discoverable does not cover it.
discover_tiles(tiles, known_map, robot_energy, can_discover, lib_fault, to_discover) ==
    LET requested == {to_discover[i] : i \in 1..Len(to_discover)}
        inside == {cell \in requested : InWorld(tiles, cell[1], cell[2])}
        newly == {cell \in inside : ~known_map[cell[2]][cell[1]]}
        cost == EnergyPerTile * Cardinality(newly)
    IN  IF lib_fault \in OtherLibErrors
        THEN [tiles |-> Err(lib_fault), hashmap |-> <<>>,
              known |-> known_map, energy |-> robot_energy,
              discoverable |-> can_discover]
        ELSE IF robot_energy < cost
        THEN [tiles |-> Err("NotEnoughEnergy"), hashmap |-> <<>>,
              known |-> known_map, energy |-> robot_energy,
              discoverable |-> can_discover]
        ELSE IF can_discover < Cardinality(newly)
        THEN [tiles |-> Err("NoMoreDiscovery"), hashmap |-> <<>>,
              known |-> known_map, energy |-> robot_energy,
              discoverable |-> can_discover]
        ELSE [tiles |-> Ok_None,
              hashmap |-> [cell \in requested |->
                             IF cell \in inside /\ lib_fault # Unresolved
                             THEN SomeTile(tiles[cell[2]][cell[1]])
                             ELSE NoTile],
              known |-> MarkKnown(known_map, inside),
              energy |-> robot_energy - cost,
              discoverable |-> can_discover - Cardinality(newly)]

\* ---------------------------------------------------------------------- scan
\* a fetch policy that never takes the local view
use_robot_view_Never(pattern) == FALSE

\* a fetch policy that takes the local view for an Area of any size
use_robot_view_AnyArea(pattern) == pattern.kind = "Area"

\* Pattern::Area(3) => use_robot_view = true
use_robot_view(pattern) == pattern.kind = "Area" /\ pattern.size = USize(3)

\* a translation that inserts the None cells of the window too
to_hashmap_KeepsAbsent(robot_coordinate, tilemap) ==
    LET x_robot == robot_coordinate.col
        y_robot == robot_coordinate.row
    IN  [key \in {<<x_robot + area[1] - 1, y_robot + area[2] - 1>> :
                    area \in (0..2) \X (0..2)} |->
            tilemap[key[2] - y_robot + 1][key[1] - x_robot + 1]]

\* the closure to_hashmap: the Some tiles of the window, keyed by
\* (x_robot + x_area - 1, y_robot + y_area - 1)
to_hashmap(robot_coordinate, tilemap) ==
    LET x_robot == robot_coordinate.col
        y_robot == robot_coordinate.row
        present == {area \in (0..2) \X (0..2) : tilemap[area[2]][area[1]].some}
        keys == {<<x_robot + area[1] - 1, y_robot + area[2] - 1>> :
                    area \in present}
    IN  [key \in keys |->
            tilemap[key[2] - y_robot + 1][key[1] - x_robot + 1]]

\* hashmap.retain(..): the keys whose tile has the discriminant of `content`
\* a filter that compares the whole content, quantity included
Retained_WithQuantity(hashmap, content) ==
    {key \in DOMAIN hashmap : hashmap[key].content = content}

Retained(hashmap, content) ==
    {key \in DOMAIN hashmap : hashmap[key].content.kind = content.kind}

\* the match on `tiles` when it is Ok(hashmap): the values scan may return.
\* The hash map is iterated in an arbitrary order and max_by_key returns the
\* last of the largest elements, so any retained entry with the largest
\* quantity may be the result.
\* a selection without the is_empty test: max_by_key finds nothing to unwrap
Select_UnwrapsEmpty(hashmap, content) ==
    LET retained == Retained(hashmap, content)
    IN  IF \E key \in DOMAIN hashmap : ~hashmap[key].some
        THEN {Panic}
        ELSE IF retained = {}
        THEN {Panic}
        ELSE IF \E key \in retained : ~HasValue(hashmap[key].content)
        THEN {Panic}
        ELSE {Ok_Some(MapCoordinate_from(key), hashmap[key].content.qty) :
                key \in {k \in retained :
                           \A other \in retained :
                              hashmap[other].content.qty
                                 <= hashmap[k].content.qty}}

\* a selection that skips the entries without a tile or without a quantity
Select_SkipsMissing(hashmap, content) ==
    LET retained == {key \in Retained(hashmap, content) :
                       hashmap[key].some /\ HasValue(hashmap[key].content)}
    IN  IF retained = {}
        THEN {Ok_None}
        ELSE {Ok_Some(MapCoordinate_from(key), hashmap[key].content.qty) :
                key \in {k \in retained :
                           \A other \in retained :
                              hashmap[other].content.qty
                                 <= hashmap[k].content.qty}}

\* a selection that returns the smallest quantity
Select_Smallest(hashmap, content) ==
    LET retained == Retained(hashmap, content)
    IN  IF \E key \in DOMAIN hashmap : ~hashmap[key].some
        THEN {Panic}
        ELSE IF retained = {}
        THEN {Ok_None}
        ELSE IF \E key \in retained : ~HasValue(hashmap[key].content)
        THEN {Panic}
        ELSE {Ok_Some(MapCoordinate_from(key), hashmap[key].content.qty) :
                key \in {k \in retained :
                           \A other \in retained :
                              hashmap[k].content.qty
                                 <= hashmap[other].content.qty}}

Select(hashmap, content) ==
    LET retained == Retained(hashmap, content)
    IN  IF \E key \in DOMAIN hashmap : ~hashmap[key].some
        THEN {Panic}
        ELSE IF retained = {}
        THEN {Ok_None}
        ELSE IF \E key \in retained : ~HasValue(hashmap[key].content)
        THEN {Panic}
        ELSE {Ok_Some(MapCoordinate_from(key), hashmap[key].content.qty) :
                key \in {k \in retained :
                           \A other \in retained :
                              hashmap[other].content.qty
                                 <= hashmap[k].content.qty}}

\* an error arm that takes a failure for "nothing found"
ToolError_Swallowed(lib_error) == Ok_None

\* an error arm that reports an exhausted disclosure counter as a lack of
\* energy
ToolError_Merged(lib_error) ==
    CASE lib_error = "NotEnoughEnergy" -> Err("NotEnoughEnergy")
      [] lib_error = "NoMoreDiscovery" -> Err("NotEnoughEnergy")
      [] OTHER -> Err("Other(" \o lib_error \o ")")

\* the error arm of the match on `tiles`
ToolError(lib_error) ==
    CASE lib_error = "NotEnoughEnergy" -> Err("NotEnoughEnergy")
      [] lib_error = "NoMoreDiscovery" -> Err("NoMoreDiscovery")
      [] OTHER -> Err("Other(" \o lib_error \o ")")

NoCall ==
    [called |-> FALSE, pattern |-> [kind |-> "Area", size |-> USize(0)],
     content |-> ContentNone, known |-> <<>>, energy |-> 0,
     discoverable |-> 0, calls |-> <<>>, target |-> <<>>,
     sanitized |-> <<>>, hashmap |-> <<>>, result |-> Ok_None]

Call(fn, to_discover) == [fn |-> fn, to_discover |-> to_discover]

\* the record of a call, before it has done anything
Before(pattern, content) ==
    [called |-> TRUE, pattern |-> pattern, content |-> content,
     known |-> known, energy |-> energy, discoverable |-> discoverable,
     calls |-> <<>>, target |-> <<>>, sanitized |-> <<>>, hashmap |-> <<>>,
     result |-> Ok_None]

\* return Err(Box::new(InvalidSizeError)), first thing
reject(pattern, content) ==
    /\ last' = [Before(pattern, content) EXCEPT
                  !.result = Err("InvalidSizeError")]
    /\ UNCHANGED <<world, known, robot, energy, discoverable, fault, converted>>

\* scan from `let use_robot_view` on
fetch_and_select(pattern, content) ==
    LET known_coordinates == robot_map(known)
        target == get_target_coordinates(robot, MapLen(known_coordinates),
                                         pattern)
        map_calls == IF target = <<>>
                     THEN <<Call("robot_map", <<>>)>>
                     ELSE <<Call("robot_map", <<>>), Call("robot_map", <<>>)>>
    IN
    IF IndexPanics(known_coordinates, target)
    THEN /\ last' = [Before(pattern, content) EXCEPT
                       !.calls = map_calls, !.target = target,
                       !.result = Panic]
         /\ UNCHANGED <<world, known, robot, energy, discoverable, fault, converted>>
    ELSE
    LET sanitized_coordinates ==
            get_sanitized_tiles(robot, known_coordinates, pattern)
        binding == [i \in 1..Len(sanitized_coordinates) |->
                      MapCoordinate_into(sanitized_coordinates[i])]
        after == [Before(pattern, content) EXCEPT
                    !.target = target, !.sanitized = sanitized_coordinates]
    IN
    IF use_robot_view(pattern)
    THEN LET hashmap == to_hashmap(robot, robot_view(robot, world))
         IN  /\ \E result \in Select(hashmap, content) :
                   last' = [after EXCEPT
                              !.calls = Append(map_calls,
                                               Call("robot_view", <<>>)),
                              !.hashmap = hashmap,
                              !.result = result]
             /\ known' = MarkKnown(known, ViewedCells(robot, world))
             /\ UNCHANGED <<world, robot, energy, discoverable, fault, converted>>
    ELSE LET discovered == discover_tiles(world, known, energy, discoverable,
                                          fault, binding)
         IN  /\ \E result \in
                     (IF discovered.tiles.tag = "Ok"
                      THEN Select(discovered.hashmap, content)
                      ELSE {ToolError(discovered.tiles.error)}) :
                   last' = [after EXCEPT
                              !.calls = Append(map_calls,
                                          Call("discover_tiles", binding)),
                              !.hashmap = discovered.hashmap,
                              !.result = result]
             /\ known' = discovered.known
             /\ energy' = discovered.energy
             /\ discoverable' = discovered.discoverable
             /\ UNCHANGED <<world, robot, fault, converted>>

\* a scan that looks at the local view once the disclosure service has failed,
\* and then returns the error
scan_ViewsOnFailure(pattern, content) ==
    IF ~check_size(pattern)
    THEN reject(pattern, content)
    ELSE
    LET sanitized_coordinates ==
            get_sanitized_tiles(robot, robot_map(known), pattern)
        binding == [i \in 1..Len(sanitized_coordinates) |->
                      MapCoordinate_into(sanitized_coordinates[i])]
        discovered == discover_tiles(world, known, energy, discoverable,
                                     fault, binding)
    IN  IF ~use_robot_view(pattern) /\ discovered.tiles.tag = "Err"
        THEN /\ last' = [Before(pattern, content) EXCEPT
                           !.sanitized = sanitized_coordinates,
                           !.calls = <<Call("discover_tiles", binding),
                                       Call("robot_view", <<>>)>>,
                           !.result = ToolError(discovered.tiles.error)]
             /\ known' = MarkKnown(known, ViewedCells(robot, world))
             /\ UNCHANGED <<world, robot, energy, discoverable, fault, converted>>
        ELSE fetch_and_select(pattern, content)

\* a scan that reads the known map before it validates the size
scan_ValidatesLate(pattern, content) ==
    IF ~check_size(pattern)
    THEN /\ last' = [Before(pattern, content) EXCEPT
                       !.calls = <<Call("robot_map", <<>>)>>,
                       !.result = Err("InvalidSizeError")]
         /\ UNCHANGED <<world, known, robot, energy, discoverable, fault, converted>>
    ELSE fetch_and_select(pattern, content)

\* scan(world, robot, pattern, content)
scan(pattern, content) ==
    IF ~check_size(pattern)
    THEN reject(pattern, content)
    ELSE fetch_and_select(pattern, content)

\* ------------------------------------------------------------ the behaviours
Wanted == {Coin(0), Bin}

\* the content of a tile that nothing was placed on
Placed(placed, col, row) ==
    IF \E p \in placed : p.col = col /\ p.row = row
    THEN (CHOOSE p \in placed : p.col = col /\ p.row = row).content
    ELSE ContentNone

\* the worlds: empty but for one coin, for a coin and a larger coin on the
\* tile to its right, or for one bin
Layouts(first) ==
    { {[col |-> first.width, row |-> first.height, content |-> Coin(1)]},
      {[col |-> first.width, row |-> first.height, content |-> Coin(1)],
       [col |-> first.width + 1, row |-> first.height, content |-> Coin(2)]},
      {[col |-> first.width, row |-> first.height, content |-> Bin]} }

\* no pair has been converted
NoConversion ==
    [called |-> FALSE, value |-> <<0, 0>>, coordinate |-> NoCoordinate,
     back |-> <<0, 0>>, other |-> NoCoordinate, equal |-> FALSE]

Init ==
    /\ \E first \in Cells : \E placed \in Layouts(first) :
          world = [row \in Index |-> [col \in Index |-> Placed(placed, col, row)]]
    /\ known = [row \in Index |-> [col \in Index |-> FALSE]]
    /\ robot \in [row : Index, col : Index]
    /\ energy = MaxEnergy
    /\ discoverable = MaxDiscoverable
    /\ fault = NoFault
    /\ last = NoCall
    /\ converted = NoConversion

\* the robot's first scan
Scan ==
    /\ ~last.called
    /\ \E pattern \in Pattern, content \in Wanted : scan(pattern, content)

\* the robot scans again, with the pattern and the content of its last scan
Rescan ==
    /\ last.called
    /\ scan(last.pattern, last.content)

Next == Scan \/ Rescan

Spec == Init /\ [][Next]_vars

\* The behaviours of a robot short of energy, of a map service short of
\* disclosures, and of a map service failing in another way: <<energy,
\* discoverable, fault>> at the first scan.
Scarce ==
    {<<0, MaxDiscoverable, NoFault>>, <<EnergyPerTile, MaxDiscoverable, NoFault>>,
     <<MaxEnergy, 0, NoFault>>, <<MaxEnergy, 1, NoFault>>, <<0, 0, NoFault>>}
      \cup {<<MaxEnergy, MaxDiscoverable, lib_error>> :
              lib_error \in OtherLibErrors}
      \cup {<<0, 0, lib_error>> : lib_error \in OtherLibErrors}
      \cup {<<MaxEnergy, MaxDiscoverable, Unresolved>>}

InitScarce ==
    /\ \E placed \in Layouts(MapCoordinate_new(0, 0)) :
          world = [row \in Index |-> [col \in Index |-> Placed(placed, col, row)]]
    /\ known = [row \in Index |-> [col \in Index |-> FALSE]]
    /\ robot \in [row : Index, col : Index]
    /\ \E scarce \in Scarce :
          /\ energy = scarce[1]
          /\ discoverable = scarce[2]
          /\ fault = scarce[3]
    /\ last = NoCall
    /\ converted = NoConversion

SpecScarce == InitScarce /\ [][Next]_vars

\* The behaviours in a world where two neighbouring tiles hold coins of the
\* same quantity.
TieLayout(first) ==
    {[col |-> first.width, row |-> first.height, content |-> Coin(1)],
     [col |-> first.width + 1, row |-> first.height, content |-> Coin(1)]}

InitTies ==
    /\ \E first \in Cells :
          world = [row \in Index |->
                     [col \in Index |-> Placed(TieLayout(first), col, row)]]
    /\ known = [row \in Index |-> [col \in Index |-> FALSE]]
    /\ robot \in [row : Index, col : Index]
    /\ energy = MaxEnergy
    /\ discoverable = MaxDiscoverable
    /\ fault = NoFault
    /\ last = NoCall
    /\ converted = NoConversion

SpecTies == InitTies /\ [][Next]_vars

\* ---------------------------------------------------------------- the claims
\* the region a pattern covers around the agent, as the specification gives
\* it: the square of side n for Area, the cells at distances 1..n in the named
\* direction for a ray (up is the smaller row, left the smaller column), the
\* four rays and the agent's own cell for a star; clipped to the world
Abs(x) == IF x < 0 THEN -x ELSE x

\* k <= n and k <= n / 2 for a distance k of the world and a usize n
Reaches(size, k) == size[1] > 0 \/ k <= size[2]
HalfReaches(size, k) == size[1] > 0 \/ k <= size[2] \div 2

StraightArms == {<<0, -1>>, <<0, 1>>, <<-1, 0>>, <<1, 0>>}
DiagonalArms == {<<-1, -1>>, <<1, -1>>, <<-1, 1>>, <<1, 1>>}

Arms(kind) ==
    CASE kind = "DirectionUp" -> {<<0, -1>>}
      [] kind = "DirectionDown" -> {<<0, 1>>}
      [] kind = "DirectionLeft" -> {<<-1, 0>>}
      [] kind = "DirectionRight" -> {<<1, 0>>}
      [] kind = "DiagonalUpperLeft" -> {<<-1, -1>>}
      [] kind = "DiagonalUpperRight" -> {<<1, -1>>}
      [] kind = "DiagonalLowerLeft" -> {<<-1, 1>>}
      [] kind = "DiagonalLowerRight" -> {<<1, 1>>}
      [] kind = "StraightStar" -> StraightArms
      [] kind = "DiagonalStar" -> DiagonalArms
      [] OTHER -> {}

AgentCell(agent) == MapCoordinate_new(agent.col, agent.row)

CoveredRegion(pattern, agent) ==
    IF pattern.kind = "Area"
    THEN {c \in Cells : /\ HalfReaches(pattern.size, Abs(c.width - agent.col))
                        /\ HalfReaches(pattern.size, Abs(c.height - agent.row))}
    ELSE {c \in Cells :
            \E arm \in Arms(pattern.kind), i \in 1..WorldSize :
               /\ Reaches(pattern.size, i)
               /\ c.width = agent.col + arm[1] * i
               /\ c.height = agent.row + arm[2] * i}
         \cup (IF pattern.kind \in {"StraightStar", "DiagonalStar"}
               THEN {AgentCell(agent)} ELSE {})

\* a ray may or may not count the agent's own cell
CoveredRegionWithAgent(pattern, agent) ==
    CoveredRegion(pattern, agent) \cup {AgentCell(agent)}

ContentAt(c) == world[c.height][c.width]

\* the call passed the size validation and did not panic
Scanned == last.called /\ last.result.tag \in {"Ok", "Err"}
              /\ last.result.error # "InvalidSizeError"

\* The conversions of MapCoordinate, applied to the pairs of a small range.
Pairs == (0..MaxCoordinate) \X (0..MaxCoordinate)

InitConvert ==
    /\ world = [row \in Index |-> [col \in Index |-> ContentNone]]
    /\ known = [row \in Index |-> [col \in Index |-> FALSE]]
    /\ robot = [row |-> 0, col |-> 0]
    /\ energy = MaxEnergy
    /\ discoverable = MaxDiscoverable
    /\ fault = NoFault
    /\ last = NoCall
    /\ converted = NoConversion

\* MapCoordinate::from(value), its into(), and its == with the coordinate
\* MapCoordinate::new(other.0, other.1)
Convert ==
    /\ \E value \in Pairs, other \in Pairs :
          LET coordinate == MapCoordinate_from(value)
              compared == MapCoordinate_new(other[1], other[2])
          IN  converted' = [called |-> TRUE,
                            value |-> value,
                            coordinate |-> coordinate,
                            back |-> MapCoordinate_into(coordinate),
                            other |-> compared,
                            equal |-> MapCoordinate_eq(coordinate, compared)]
    /\ UNCHANGED <<world, known, robot, energy, discoverable, fault, last>>

SpecConvert == InitConvert /\ [][Convert]_vars

\* C1: completeness of scan.  When scan returns Ok(None), no cell of the
\* pattern's covered region holds content of the requested category, whichever
\* of those cells were known before the call.
C1_OkNoneOnlyWhenRegionHasNoMatch ==
    (last.called /\ last.result = Ok_None) =>
        \A c \in CoveredRegion(last.pattern, robot) :
            ContentAt(c).kind # last.content.kind

\* C2: soundness of scan.  When scan returns Ok(Some((c, q))), c is a cell of
\* the pattern's covered region around the agent, the world's cell at c holds
\* content of the requested category, and q is that cell's quantity.
C2_SomeIsAMatchingCellOfTheRegion ==
    (last.called /\ last.result.tag = "Ok" /\ last.result.found) =>
        /\ last.result.coordinate \in CoveredRegionWithAgent(last.pattern, robot)
        /\ ContentAt(last.result.coordinate).kind = last.content.kind
        /\ last.result.quantity = ContentAt(last.result.coordinate).qty

\* C3: the sanitized coordinates are the candidates, in their order, without
\* those whose cell known[row][col] is known, a candidate being
\* (column, row) = (width, height).
C3_SanitizedIsTheFilterByRowThenColumn ==
    Scanned =>
        last.sanitized =
            SelectSeq(last.target,
                      LAMBDA c : ~last.known[c.height][c.width])

\* C4: re-scan.  After a scan that succeeded with a pattern other than
\* Area(3), a second scan with the same pattern from the same position
\* derives an empty list of sanitized coordinates.
C4_RescanSanitizesEveryCandidateAway ==
    [][(last.called /\ last.result.tag = "Ok" /\ ~use_robot_view(last.pattern)
          /\ last'.pattern = last.pattern)
         => last'.sanitized = <<>>]_vars

NoDuplicates(seq) ==
    \A i \in 1..Len(seq), j \in 1..Len(seq) : i # j => seq[i] # seq[j]

\* C5: no duplicates.  The list get_target_coordinates produces holds each
\* coordinate at most once, and so does the list handed to discover_tiles.
C5_EachCoordinateTargetedOnce ==
    Scanned =>
        /\ NoDuplicates(last.target)
        /\ \A i \in 1..Len(last.calls) :
              last.calls[i].fn = "discover_tiles"
                 => NoDuplicates(last.calls[i].to_discover)

SizeIsInvalid(pattern) ==
    IF pattern.kind = "Area"
    THEN USizeIsEven(pattern.size) \/ USizeLess(pattern.size, 3)
    ELSE USizeLess(pattern.size, 1)

\* C7: size validation.  scan returns InvalidSizeError exactly when the
\* pattern's size is invalid.
C7_InvalidSizeErrorExactlyForInvalidSizes ==
    last.called =>
        (last.result = Err("InvalidSizeError") <=> SizeIsInvalid(last.pattern))

\* C8: a scan rejected with InvalidSizeError has called neither the known
\* map, nor the local view, nor the disclosure service, and has left the
\* known map, the energy and the disclosure budget as they were.
C8_RejectionCallsAndChangesNothing ==
    (last.called /\ last.result = Err("InvalidSizeError")) =>
        /\ last.calls = <<>>
        /\ known = last.known
        /\ energy = last.energy
        /\ discoverable = last.discoverable

\* an Area of even size was rejected
C8_Witness ==
    /\ last.called
    /\ last.pattern = [kind |-> "Area", size |-> USize(4)]
    /\ last.result = Err("InvalidSizeError")

IsArea3(pattern) == pattern.kind = "Area" /\ pattern.size = <<0, 3>>

Fetches ==
    SelectSeq(last.calls, LAMBDA c : c.fn \in {"robot_view", "discover_tiles"})

\* C9: fetch policy.  A scan of valid size makes exactly one fetch: the local
\* view when the pattern is exactly Area(3), and otherwise one disclosure
\* request for exactly the sanitized coordinates.
C9_OneFetchByPattern ==
    (last.called /\ last.result # Err("InvalidSizeError")) =>
        /\ Len(Fetches) = 1
        /\ IF IsArea3(last.pattern)
           THEN Fetches[1].fn = "robot_view"
           ELSE /\ Fetches[1].fn = "discover_tiles"
                /\ Fetches[1].to_discover =
                      [i \in 1..Len(last.sanitized) |->
                         <<last.sanitized[i].width, last.sanitized[i].height>>]

\* an Area of side 5 asked the disclosure service for the cells around the
\* window of a first scan
C9_Witness ==
    /\ last.called
    /\ last.pattern = [kind |-> "Area", size |-> USize(5)]
    /\ Len(Fetches) = 1
    /\ Fetches[1].fn = "discover_tiles"
    /\ Fetches[1].to_discover # <<>>
    /\ last.result.tag = "Ok"

\* the disclosed cells of the requested category
Matching ==
    {key \in DOMAIN last.hashmap :
        last.hashmap[key].content.kind = last.content.kind}

\* the fetch of the last scan succeeded
Disclosed ==
    last.called /\ Len(Fetches) = 1 /\ last.result.tag \in {"Ok", "Panic"}

ReturnsLargestMatch ==
    /\ last.result.tag = "Ok"
    /\ last.result.found
    /\ MapCoordinate_into(last.result.coordinate) \in Matching
    /\ last.result.quantity =
          last.hashmap[MapCoordinate_into(last.result.coordinate)].content.qty
    /\ \A key \in Matching :
          last.hashmap[key].content.qty <= last.result.quantity

C11_NoMatchIsOkNone ==
    (Disclosed /\ Matching = {}) => last.result = Ok_None

\* cells were disclosed, none of them of the requested category
C11_Witness ==
    /\ Disclosed
    /\ DOMAIN last.hashmap # {}
    /\ Matching = {}
    /\ last.result = Ok_None

\* C12: category match ignores quantity.  Whenever scan returns, it returns
\* Some exactly when a disclosed cell has the kind of the requested content,
\* whatever the quantities of the two, and the cell it returns has that kind.
C12_MatchIsByKindAlone ==
    (Disclosed /\ last.result.tag = "Ok") =>
        /\ last.result.found <=>
              \E key \in DOMAIN last.hashmap :
                 last.hashmap[key].content.kind = last.content.kind
        /\ last.result.found =>
              /\ MapCoordinate_into(last.result.coordinate)
                    \in DOMAIN last.hashmap
              /\ last.hashmap[MapCoordinate_into(last.result.coordinate)]
                    .content.kind = last.content.kind

\* Coin(0) was requested and a cell holding Coin(1) was returned
C12_Witness ==
    /\ Disclosed
    /\ last.content = Coin(0)
    /\ last.result.tag = "Ok"
    /\ last.result.found
    /\ last.result.quantity = 1
    /\ last.hashmap[MapCoordinate_into(last.result.coordinate)].content
          = Coin(1)

\* the call passed the size validation, of a size the specification calls
\* valid, and computed its target coordinates
Targeted ==
    /\ last.called
    /\ ~SizeIsInvalid(last.pattern)
    /\ last.result # Err("InvalidSizeError")

TargetCells == {last.target[i] : i \in 1..Len(last.target)}

\* the agent is at least k cells from every edge of the world
FarFromEdges(agent, k) ==
    /\ agent.col >= k /\ agent.col + k <= WorldSize - 1
    /\ agent.row >= k /\ agent.row + k <= WorldSize - 1

\* C13: Area geometry.  For every odd n >= 3 the coordinates of Area(n) are
\* exactly the in-bounds cells at column and row offsets in [-(n/2), n/2]
\* from the agent, each once: n * n cells when the agent is at least n/2
\* cells from every edge.
C13_AreaIsTheCentredSquare ==
    (Targeted /\ last.pattern.kind = "Area") =>
        /\ TargetCells = CoveredRegion(last.pattern, robot)
        /\ NoDuplicates(last.target)
        /\ (last.pattern.size[1] = 0
              /\ FarFromEdges(robot, last.pattern.size[2] \div 2))
             => Len(last.target) = last.pattern.size[2] * last.pattern.size[2]

StraightKinds ==
    {"DirectionUp", "DirectionDown", "DirectionLeft", "DirectionRight"}

\* C14: straight rays.  With the agent at least n cells from every edge, a
\* straight ray of size n holds the n cells at distances 1..n from the agent
\* in the named direction and, the agent's own cell aside, nothing else; the
\* agent's own cell is in the rays of all four directions or in none.
C14_StraightRayIsTheNamedDirection ==
    (Targeted /\ last.pattern.kind \in StraightKinds
       /\ last.pattern.size[1] = 0
       /\ FarFromEdges(robot, last.pattern.size[2])) =>
        /\ TargetCells \ {AgentCell(robot)} = CoveredRegion(last.pattern, robot)
        /\ \A kind \in StraightKinds :
              LET other == get_target_coordinates(
                              robot, MapLen(last.known),
                              [kind |-> kind, size |-> last.pattern.size])
              IN  (AgentCell(robot) \in TargetCells)
                    <=> (\E i \in 1..Len(other) : other[i] = AgentCell(robot))

\* the cell c is unknown before the call, carries a quantity, and is the only
\* cell of the world that holds the requested category
OnlyMatch(c) ==
    /\ c \in Cells
    /\ ~last.known[c.height][c.width]
    /\ ContentAt(c).kind = last.content.kind
    /\ HasValue(ContentAt(c))
    /\ \A d \in Cells : ContentAt(d).kind = last.content.kind => d = c

\* a scan of `kind` that did not fail returned the cell k steps along
\* (dx, dy) from the agent, with its quantity, if that cell is within the
\* size and is the only match
FindsAlong(kind, dx, dy) ==
    \A k \in 1..WorldSize :
        LET c == MapCoordinate_new(robot.col + dx * k, robot.row + dy * k)
        IN  (Targeted /\ last.pattern.kind = kind /\ last.result.tag # "Err"
               /\ Reaches(last.pattern.size, k) /\ OnlyMatch(c))
              => last.result = Ok_Some(c, ContentAt(c).qty)

\* C15: vertical scans.  With the agent at (column c, row r) and the only
\* matching cell unknown, DirectionUp(n) returns the cell (c, r-k) and
\* DirectionDown(n) the cell (c, r+k), for 1 <= k <= n.
C15_VerticalScanFindsTheCell ==
    FindsAlong("DirectionUp", 0, -1) /\ FindsAlong("DirectionDown", 0, 1)

\* C16: horizontal scans.  With the agent at (column c, row r) and the only
\* matching cell unknown, DirectionLeft(n) returns the cell (c-k, r) and
\* DirectionRight(n) the cell (c+k, r), for 1 <= k <= n.
C16_HorizontalScanFindsTheCell ==
    FindsAlong("DirectionLeft", -1, 0) /\ FindsAlong("DirectionRight", 1, 0)

DiagonalKinds ==
    {"DiagonalUpperLeft", "DiagonalUpperRight",
     "DiagonalLowerLeft", "DiagonalLowerRight"}

\* C17: diagonal rays.  A diagonal ray of size n holds exactly the in-bounds
\* cells at offsets (sx * i, sy * i), i in 1..=n, from the agent, with the
\* signs of the named diagonal: n cells when nothing is clipped.
C17_DiagonalRayIsTheNamedDiagonal ==
    (Targeted /\ last.pattern.kind \in DiagonalKinds) =>
        /\ TargetCells = CoveredRegion(last.pattern, robot)
        /\ (last.pattern.size[1] = 0 /\ FarFromEdges(robot, last.pattern.size[2]))
             => Len(last.target) = last.pattern.size[2]

\* C18: StraightStar geometry.  StraightStar(n) holds exactly the in-bounds
\* cells among the agent's own cell and the cells at distances 1..n to its
\* left, right, above and below: 4n + 1 cells when nothing is clipped.
C18_StraightStarIsTheFourRays ==
    (Targeted /\ last.pattern.kind = "StraightStar") =>
        /\ TargetCells = CoveredRegion(last.pattern, robot)
        /\ (last.pattern.size[1] = 0 /\ FarFromEdges(robot, last.pattern.size[2]))
             => Len(last.target) = 4 * last.pattern.size[2] + 1

\* C19: DiagonalStar geometry.  DiagonalStar(n) holds exactly the in-bounds
\* cells among the agent's own cell and the cells at offsets (+i,+i), (+i,-i),
\* (-i,+i) and (-i,-i), i in 1..=n: 4n + 1 distinct cells when nothing is
\* clipped.
C19_DiagonalStarIsTheFourDiagonals ==
    (Targeted /\ last.pattern.kind = "DiagonalStar") =>
        /\ TargetCells = CoveredRegion(last.pattern, robot)
        /\ (last.pattern.size[1] = 0 /\ FarFromEdges(robot, last.pattern.size[2]))
             => /\ Len(last.target) = 4 * last.pattern.size[2] + 1
                /\ NoDuplicates(last.target)

\* what the disclosure service answered to the request of the last scan
Reported ==
    discover_tiles(world, last.known, last.energy, last.discoverable, fault,
                   Fetches[1].to_discover).tiles

\* the last scan asked the disclosure service, and the service failed
DisclosureFailed ==
    /\ last.called
    /\ Len(Fetches) = 1
    /\ Fetches[1].fn = "discover_tiles"
    /\ Reported.tag = "Err"

\* C20: error classification.  When the disclosure service fails, scan
\* returns Err: NotEnoughEnergy if the service reported a lack of energy,
\* NoMoreDiscovery if it reported its disclosure counter exhausted, and
\* Other with the failure's description for every other failure.
C20_FailureIsClassified ==
    DisclosureFailed =>
        last.result =
           (CASE Reported.error = "NotEnoughEnergy" -> Err("NotEnoughEnergy")
              [] Reported.error = "NoMoreDiscovery" -> Err("NoMoreDiscovery")
              [] OTHER -> Err("Other(" \o Reported.error \o ")"))

\* the disclosure counter was exhausted while the robot had energy left
C20_Witness ==
    /\ DisclosureFailed
    /\ Reported.error = "NoMoreDiscovery"
    /\ last.energy = MaxEnergy
    /\ last.result = Err("NoMoreDiscovery")

DiscoverCalls == SelectSeq(last.calls, LAMBDA c : c.fn = "discover_tiles")

\* C21: no retry and no partial result.  A scan invokes the disclosure
\* service at most once; if that invocation fails the scan returns Err, with
\* neither a coordinate nor a quantity.
C21_OneAttemptAndNoPartialResult ==
    last.called =>
        /\ Len(DiscoverCalls) <= 1
        /\ DisclosureFailed =>
              /\ last.result.tag = "Err"
              /\ ~last.result.found
              /\ last.result.coordinate = NoCoordinate
              /\ last.result.quantity = 0

\* the robot lacked the energy for the request: one invocation, and Err
C21_Witness ==
    /\ DisclosureFailed
    /\ Len(DiscoverCalls) = 1
    /\ DiscoverCalls[1].to_discover # <<>>
    /\ last.result = Err("NotEnoughEnergy")

\* C22: state unchanged on error.  If scan returns Err, the known map after
\* the call is the known map before it, no cell has been disclosed and
\* nothing has been charged.
C22_ErrLeavesTheKnownMap ==
    (last.called /\ last.result.tag = "Err") =>
        /\ known = last.known
        /\ discoverable = last.discoverable
        /\ energy = last.energy

\* the disclosure counter allowed one cell of a request for several: the scan
\* failed and no cell is known
C22_Witness ==
    /\ DisclosureFailed
    /\ last.result = Err("NoMoreDiscovery")
    /\ last.discoverable = 1
    /\ Len(DiscoverCalls[1].to_discover) > 1
    /\ \A row \in Index, col \in Index : ~known[row][col]

\* C23: empty candidate set.  When get_target_coordinates yields no in-bounds
\* coordinate for a valid pattern, scan returns the EmptyCoordinates error.
C23_NoCoordinateIsEmptyCoordinates ==
    (Targeted /\ last.target = <<>>) => last.result = Err("EmptyCoordinates")

\* the energy the documentation of scan publishes for a pattern of size n
PublishedCost(kind, n) ==
    CASE kind = "Area" -> IF n = 3 THEN 0 ELSE 12 * (n - 1)
      [] kind \in {"StraightStar", "DiagonalStar"} -> 12 * n
      [] OTHER -> 3 * n

\* how far a pattern of size n reaches from the agent
Reach(kind, n) == IF kind = "Area" THEN n \div 2 ELSE n

\* C24: published energy cost.  With no cell known beforehand and the agent
\* far enough from every edge that nothing is clipped, a successful scan
\* charges 0 for Area(3), 12 * (n - 1) for Area(n), n > 3, 3 * n for a
\* straight or diagonal ray and 12 * n for a star.
C24_ScanChargesThePublishedCost ==
    (Targeted /\ last.result.tag = "Ok" /\ last.pattern.size[1] = 0
       /\ (\A row \in Index, col \in Index : ~last.known[row][col])
       /\ FarFromEdges(robot, Reach(last.pattern.kind, last.pattern.size[2])))
      => last.energy - energy
           = PublishedCost(last.pattern.kind, last.pattern.size[2])

\* C25: deterministic winner.  Two scans with the same pattern and content,
\* started from the same world, known map, position, energy and disclosure
\* budget, return the same result.  (The state a scan started from is the
\* present state when that scan changed nothing.)
C25_SameStateSameResult ==
    [][(/\ last.called
        /\ last.known = known
        /\ last.energy = energy
        /\ last.discoverable = discoverable
        /\ last'.pattern = last.pattern
        /\ last'.content = last.content)
         => last'.result = last.result]_vars

C27_ConversionRoundTrips ==
    converted.called =>
      /\ converted.coordinate.width = converted.value[1]
      /\ converted.coordinate.height = converted.value[2]
      /\ converted.back = converted.value
      /\ converted.equal <=>
            /\ converted.coordinate.width = converted.other.width
            /\ converted.coordinate.height = converted.other.height

\* the pair (1, 2) was converted and compared with the coordinate of (2, 1)
C27_Witness ==
    /\ converted.called
    /\ converted.value = <<1, 2>>
    /\ converted.back = <<1, 2>>
    /\ converted.other = MapCoordinate_new(2, 1)
    /\ ~converted.equal

\* C28: sanitization is idempotent.  Filtering the sanitized list of a scan
\* again, against the known map the scan started from, returns the same list.
C28_SanitizingTwiceChangesNothing ==
    Scanned => sanitize(last.known, last.sanitized) = last.sanitized

\* a scan whose sanitization removed some of its targets and kept others
C28_Witness ==
    /\ Scanned
    /\ 0 < Len(last.sanitized)
    /\ Len(last.sanitized) < Len(last.target)
    /\ sanitize(last.known, last.sanitized) = last.sanitized

\* the cells of the 3x3 window around the agent that lie in the world, as
\* (column, row) pairs
WindowCells ==
    {<<robot.col + j - 1, robot.row + i - 1>> : i \in 0..2, j \in 0..2}
       \cap (Index \X Index)

\* C29: the local-view translation is the Area(3) geometry.  On the Area(3)
\* path the keys of the mapping are exactly the in-bounds cells
\* (ax + j - 1, ay + i - 1) of the window, the same set get_target_coordinates
\* returns for Area(3), and no key was computed below zero.
C29_LocalViewKeysAreTheArea3Targets ==
    (last.called /\ IsArea3(last.pattern)) =>
        /\ DOMAIN last.hashmap = WindowCells
        /\ DOMAIN last.hashmap = {MapCoordinate_into(c) : c \in TargetCells}
        /\ \A key \in DOMAIN last.hashmap : key[1] >= 0 /\ key[2] >= 0

\* the agent stands in the corner (0, 0): four cells of its window are in the
\* world and five are absent
C29_Witness ==
    /\ last.called /\ IsArea3(last.pattern)
    /\ robot.col = 0 /\ robot.row = 0
    /\ Len(Fetches) = 1 /\ Fetches[1].fn = "robot_view"
    /\ Cardinality(DOMAIN last.hashmap) = 4
    /\ Cardinality(TargetCells) = 4

====
